---- MODULE Spec2Model ----
(***************************************************************************)
(* Model of openlr_dereferencer/decoding/candidate_functions.py: candidate *)
(* generation (make_candidates, nominate_candidates), route resolution     *)
(* (get_candidate_route, handleCandidatePair), the backtracking matcher    *)
(* (match_tail) and node classification (is_valid_node, is_invalid_node).  *)
(*                                                                         *)
(* Lengths and distances are integers.  A relative offset is kept as the   *)
(* distance from the start of the line, so  reloff = 0  is distance 0 and  *)
(* reloff = 1  is distance  line.length.  Scores are percentages (0..100)  *)
(* and the DNP envelope is kept multiplied by 100.                         *)
(***************************************************************************)
EXTENDS Integers, Sequences, FiniteSets, TLC

VARIABLES
    cache,      \* the default-argument dict of match_tail (one per process)
    stack,      \* active match_tail calls, innermost last
    ret,        \* outcome handed from a finished call to its caller
    events,     \* observer calls of the running decode, in order
    decodes,    \* number of top-level match_tail calls started
    input,      \* arguments of the running / last top-level call
    prev,       \* arguments and outcome of the top-level call before it
    entryCache, \* the cache as the running top-level call found it
    graph,      \* node classification: the lines of the map
    verdict,    \* node classification: last classified node and results
    cin,        \* candidate generation: map, LRP and flags of the last call
    cout,       \* candidate generation: result of the last call
    rin,        \* route resolution: arguments of get_candidate_route
    rout        \* route resolution: its result and its path searches

vars == <<cache, stack, ret, events, decodes, input, prev, entryCache,
          graph, verdict, cin, cout, rin, rout>>

matchVars == <<cache, stack, ret, events, decodes, input, prev, entryCache>>
nodeVars == <<graph, verdict>>
candVars == <<cin, cout>>
routeVars == <<rin, rout>>

----------------------------------------------------------------------------
(* Bounds of the model *)

MaxDecodes == 2
MaxLrps == 4
MaxNodeLines == 4
NumNodes == 4
MaxPathLines == 3

----------------------------------------------------------------------------
(* Config: the options candidate_functions.py reads *)

search_radius == 10
candidate_threshold == 1
max_bear_deviation == 45
min_score == 30
max_dnp_deviation == 30
tolerated_dnp_dev == 1

tolerated_lfrc == [f \in 0..7 |-> f]

candidate_score_weights == [geo |-> 40, frc |-> 20, fow |-> 20, bear |-> 20]

fow_weights == [a \in 0..1 |-> [b \in 0..1 |-> IF a = b THEN 100 ELSE 0]]

----------------------------------------------------------------------------
(* Small helpers *)

Abs(x) == IF x < 0 THEN -x ELSE x

Max0(x) == IF x < 0 THEN 0 ELSE x

Range(s) == {s[i] : i \in 1..Len(s)}

RECURSIVE Concat(_)
Concat(ss) == IF ss = <<>> THEN <<>> ELSE Head(ss) \o Concat(Tail(ss))

RECURSIVE SumLen(_, _)
SumLen(reader, path) ==
    IF path = <<>> THEN 0
    ELSE reader.lines[Head(path)].length + SumLen(reader, Tail(path))

----------------------------------------------------------------------------
(* Node classification *)

incoming_lines(reader, node) ==
    SelectSeq(reader.lines, LAMBDA l : l.end_node = node)

outgoing_lines(reader, node) ==
    SelectSeq(reader.lines, LAMBDA l : l.start_node = node)

is_invalid_node_card4(reader, node) ==
    LET inc == incoming_lines(reader, node)
        out == outgoing_lines(reader, node)
    IN  IF (Len(inc) = 1 /\ Len(out) = 1) \/ (Len(inc) = 2 /\ Len(out) = 2)
        THEN LET unique_nodes ==
                    {l.start_node : l \in Range(inc)} \cup {l.end_node : l \in Range(inc)}
                    \cup {l.start_node : l \in Range(out)} \cup {l.end_node : l \in Range(out)}
             IN  Cardinality(unique_nodes) >= 3
        ELSE FALSE

is_invalid_node(reader, node) ==
    LET inc == incoming_lines(reader, node)
        out == outgoing_lines(reader, node)
    IN  IF (Len(inc) = 1 /\ Len(out) = 1) \/ (Len(inc) = 2 /\ Len(out) = 2)
        THEN LET unique_nodes ==
                    {l.start_node : l \in Range(inc)} \cup {l.end_node : l \in Range(inc)}
                    \cup {l.start_node : l \in Range(out)} \cup {l.end_node : l \in Range(out)}
             IN  Cardinality(unique_nodes) = 3
        ELSE FALSE

is_valid_node(reader, node) == ~ is_invalid_node(reader, node)

----------------------------------------------------------------------------
(* Collaborators of the module: geometry, scoring and observer calls.      *)
(* A line is a record [line_id, start_node, end_node, length, frc, fow,    *)
(* bearing, proj]; proj[pos] is where an LRP at position pos projects onto *)
(* the line: its distance d from the start of the line (0..length) and its *)
(* distance dist from the line.  An LRP is a record                        *)
(* [pos, bear, frc, fow, lfrcnp, dnp].                                     *)

coords(lrp) == lrp.pos

project(line, point) == [line |-> line.line_id, reloff |-> line.proj[point].d]

distance_from_start(reader, pol) == pol.reloff

distance_to_end(reader, pol) == reader.lines[pol.line].length - pol.reloff

projected_distance(reader, lrp, pol) == reader.lines[pol.line].proj[coords(lrp)].dist

compute_bearing(reader, candidate, is_last_lrp) == reader.lines[candidate.line].bearing

angle_difference(a, b) ==
    LET d == (a - b) % 360
    IN  IF d > 180 THEN d - 360 ELSE d

score_lrp_candidate(reader, lrp, candidate, is_last_lrp) ==
    LET line == reader.lines[candidate.line]
        geo_score == Max0(100 - (100 * projected_distance(reader, lrp, candidate)) \div search_radius)
        frc_score == Max0(100 - 25 * Abs(lrp.frc - line.frc))
        fow_score == fow_weights[lrp.fow][line.fow]
        bear_diff == angle_difference(compute_bearing(reader, candidate, is_last_lrp), lrp.bear)
        bear_score == Max0(100 - (100 * Abs(bear_diff)) \div max_bear_deviation)
        w == candidate_score_weights
    IN  (w.geo * geo_score + w.frc * frc_score + w.fow * fow_score + w.bear * bear_score) \div 100

NoScore == -1

Candidate(line, reloff) == [line |-> line.line_id, reloff |-> reloff, score |-> NoScore]

Event(name, lrp, from, to) == [ev |-> name, lrp |-> lrp, from |-> from, to |-> to]

NoArg == <<>>

Notify(observer, ev) == IF observer THEN <<ev>> ELSE <<>>

----------------------------------------------------------------------------
(* Candidate generation *)

Made(exit, cands, evs) == [exit |-> exit, cands |-> cands, events |-> evs]

Snap(discard, reloff) == [discard |-> discard, reloff |-> reloff]

snap_or_discard_any_node(line, reader, point_on_line, is_last_lrp) ==
    LET d0 == distance_from_start(reader, point_on_line)
        d1 == distance_to_end(reader, point_on_line)
    IN  IF ~ is_last_lrp
        THEN IF Abs(d0) <= candidate_threshold
             THEN Snap(FALSE, 0)
             ELSE Snap(Abs(d1) <= candidate_threshold, point_on_line.reloff)
        ELSE IF Abs(d1) <= candidate_threshold
             THEN Snap(FALSE, line.length)
             ELSE Snap(d0 <= candidate_threshold, point_on_line.reloff)

snap_or_discard(line, reader, point_on_line, is_last_lrp) ==
    LET d0 == distance_from_start(reader, point_on_line)
        d1 == distance_to_end(reader, point_on_line)
    IN  IF ~ is_last_lrp
        THEN IF Abs(d0) <= candidate_threshold /\ is_valid_node(reader, line.start_node)
             THEN Snap(FALSE, 0)
             ELSE Snap(Abs(d1) <= candidate_threshold /\ is_valid_node(reader, line.end_node),
                       point_on_line.reloff)
        ELSE IF Abs(d1) <= candidate_threshold /\ is_valid_node(reader, line.end_node)
             THEN Snap(FALSE, line.length)
             ELSE Snap(d0 <= candidate_threshold /\ is_valid_node(reader, line.start_node),
                       point_on_line.reloff)

no_partial_line_left_strict(line, reloff, is_last_lrp) ==
    (is_last_lrp /\ reloff < 0) \/ (~ is_last_lrp /\ reloff > line.length)

no_partial_line_left(line, reloff, is_last_lrp) ==
    (is_last_lrp /\ reloff <= 0) \/ (~ is_last_lrp /\ reloff >= line.length)

make_candidates_bearing_first(lrp, line, reader, observer, is_last_lrp) ==
    IF line.length = 0 THEN Made("degenerate", <<>>, <<>>)
    ELSE
    LET point_on_line == project(line, coords(lrp))
        snap == snap_or_discard(line, reader, point_on_line, is_last_lrp)
        reloff == snap.reloff
    IN
    IF snap.discard THEN Made("dedup", <<>>, <<>>)
    ELSE IF no_partial_line_left(line, reloff, is_last_lrp)
    THEN Made("no_forward", <<>>, <<>>)
    ELSE
    LET candidate == Candidate(line, reloff)
        bearing == compute_bearing(reader, candidate, is_last_lrp)
        bear_diff == angle_difference(bearing, lrp.bear)
    IN
    IF Abs(bear_diff) > max_bear_deviation
    THEN Made("bearing", <<>>,
              Notify(observer, Event("on_candidate_rejected_bearing", lrp, candidate, NoArg)))
    ELSE IF line.frc > tolerated_lfrc[lrp.lfrcnp]
    THEN Made("frc", <<>>,
              Notify(observer, Event("on_candidate_rejected_frc", lrp, candidate, NoArg)))
    ELSE
    LET scored == [candidate EXCEPT !.score = score_lrp_candidate(reader, lrp, candidate, is_last_lrp)]
    IN
    IF scored.score < min_score
    THEN Made("score", <<>>,
              Notify(observer, Event("on_candidate_rejected", lrp, scored, NoArg)))
    ELSE Made("found", <<scored>>,
              Notify(observer, Event("on_candidate_found", lrp, scored, NoArg)))

make_candidates(lrp, line, reader, observer, is_last_lrp) ==
    IF line.length = 0 THEN Made("degenerate", <<>>, <<>>)
    ELSE
    LET point_on_line == project(line, coords(lrp))
        snap == snap_or_discard(line, reader, point_on_line, is_last_lrp)
        reloff == snap.reloff
    IN
    IF snap.discard THEN Made("dedup", <<>>, <<>>)
    ELSE IF no_partial_line_left(line, reloff, is_last_lrp)
    THEN Made("no_forward", <<>>, <<>>)
    ELSE
    LET candidate == Candidate(line, reloff)
        bearing == compute_bearing(reader, candidate, is_last_lrp)
        bear_diff == angle_difference(bearing, lrp.bear)
    IN
    IF line.frc > tolerated_lfrc[lrp.lfrcnp]
    THEN Made("frc", <<>>,
              Notify(observer, Event("on_candidate_rejected_frc", lrp, candidate, NoArg)))
    ELSE IF Abs(bear_diff) > max_bear_deviation
    THEN Made("bearing", <<>>,
              Notify(observer, Event("on_candidate_rejected_bearing", lrp, candidate, NoArg)))
    ELSE
    LET scored == [candidate EXCEPT !.score = score_lrp_candidate(reader, lrp, candidate, is_last_lrp)]
    IN
    IF scored.score < min_score
    THEN Made("score", <<>>,
              Notify(observer, Event("on_candidate_rejected", lrp, scored, NoArg)))
    ELSE Made("found", <<scored>>,
              Notify(observer, Event("on_candidate_found", lrp, scored, NoArg)))

find_lines_close_to(reader, point) ==
    SelectSeq(reader.lines, LAMBDA l : l.proj[point].dist <= search_radius)

nominate_candidates(lrp, reader, observer, is_last_lrp) ==
    LET lines == find_lines_close_to(reader, coords(lrp))
        made == [i \in 1..Len(lines) |-> make_candidates(lrp, lines[i], reader, observer, is_last_lrp)]
    IN  [cands |-> Concat([i \in 1..Len(lines) |-> made[i].cands]),
         events |-> Concat([i \in 1..Len(lines) |-> made[i].events])]

----------------------------------------------------------------------------
(* Route resolution *)

None == [none |-> TRUE, val |-> <<>>]

Some(v) == [none |-> FALSE, val |-> v]

Route(start, path, dest) == [start |-> start, path |-> path, end |-> dest]

\* Route.length(): the partial start line, the lines in between and the
\* partial end line; on one line, the distance between the two offsets.
route_length(reader, route) ==
    IF route.start.line = route.end.line
    THEN Abs(route.end.reloff - route.start.reloff)
    ELSE (reader.lines[route.start.line].length - route.start.reloff)
         + SumLen(reader, route.path) + route.end.reloff

\* Line 123: the lines the path search may use
linefilter_any(line, lfrc) == TRUE

linefilter(line, lfrc) == line.frc <= lfrc

\* All paths of at most k lines from node to target over lines that pass
\* the line filter, visiting no node twice.
RECURSIVE PathsFrom(_, _, _, _, _, _)
PathsFrom(reader, node, target, lfrc, visited, k) ==
    IF node = target THEN {<<>>}
    ELSE IF k = 0 THEN {}
    ELSE UNION {
            {<<l.line_id>> \o p :
                p \in PathsFrom(reader, l.end_node, target, lfrc, visited \cup {node}, k - 1)} :
            l \in {x \in Range(outgoing_lines(reader, node)) :
                        linefilter(x, lfrc) /\ x.end_node \notin visited \cup {node}}}

\* shortest_path(): the shortest admissible path, LRPathNotFoundError (None)
\* when there is none within maxlen.  maxlen100 is maxlen * 100.
shortest_path(reader, source, target, lfrc, maxlen100) ==
    LET paths == {p \in PathsFrom(reader, source, target, lfrc, {}, MaxPathLines) :
                    100 * SumLen(reader, p) <= maxlen100}
    IN  IF paths = {} THEN None
        ELSE Some(CHOOSE p \in paths :
                    \A q \in paths :
                        \/ SumLen(reader, p) < SumLen(reader, q)
                        \/ SumLen(reader, p) = SumLen(reader, q) /\ Len(p) <= Len(q))

\* The result of get_candidate_route, with the calls of shortest_path made
Resolved(route, searches) == [none |-> route.none, val |-> route.val, searches |-> searches]

Search(source, target, lfrc, maxlen100) ==
    [source |-> source, target |-> target, lfrc |-> lfrc, maxlen |-> maxlen100]

get_candidate_route_always_search(reader, start, dest, lfrc, maxlen100) ==
    LET source == reader.lines[start.line].end_node
        target == reader.lines[dest.line].start_node
        path == shortest_path(reader, source, target, lfrc, maxlen100)
    IN  Resolved(IF path.none THEN None ELSE Some(Route(start, path.val, dest)),
                 <<Search(source, target, lfrc, maxlen100)>>)

get_candidate_route(reader, start, dest, lfrc, maxlen100) ==
    IF reader.lines[start.line].line_id = reader.lines[dest.line].line_id
    THEN Resolved(Some(Route(start, <<>>, dest)), <<>>)
    ELSE LET source == reader.lines[start.line].end_node
             target == reader.lines[dest.line].start_node
             path == shortest_path(reader, source, target, lfrc, maxlen100)
         IN  Resolved(IF path.none THEN None ELSE Some(Route(start, path.val, dest)),
                      <<Search(source, target, lfrc, maxlen100)>>)

Handled(route, evs) == [route |-> route, events |-> evs]

handleCandidatePair_no_minlen(reader, lrps, candidates, observer, lowest_frc, minlen100, maxlen100) ==
    LET current == lrps[1]
        next_lrp == lrps[2]
        source == candidates[1]
        dest == candidates[2]
        route == get_candidate_route(reader, source, dest, lowest_frc, maxlen100)
    IN  IF route.none
        THEN Handled(None, Notify(observer, Event("on_route_fail", <<current, next_lrp>>, source, dest)))
        ELSE LET length == route_length(reader, route.val)
                 success == Notify(observer, Event("on_route_success", <<current, next_lrp>>, source, dest))
             IN  IF 100 * length > maxlen100
                 THEN Handled(None, success
                        \o Notify(observer, Event("on_route_fail_length", <<current, next_lrp>>, source, dest))
                        \o Notify(observer, Event("on_route_fail", <<current, next_lrp>>, source, dest)))
                 ELSE Handled(route, success)

handleCandidatePair(reader, lrps, candidates, observer, lowest_frc, minlen100, maxlen100) ==
    LET current == lrps[1]
        next_lrp == lrps[2]
        source == candidates[1]
        dest == candidates[2]
        route == get_candidate_route(reader, source, dest, lowest_frc, maxlen100)
    IN  IF route.none
        THEN Handled(None, Notify(observer, Event("on_route_fail", <<current, next_lrp>>, source, dest)))
        ELSE LET length == route_length(reader, route.val)
                 success == Notify(observer, Event("on_route_success", <<current, next_lrp>>, source, dest))
             IN  IF 100 * length < minlen100 \/ 100 * length > maxlen100
                 THEN Handled(None, success
                        \o Notify(observer, Event("on_route_fail_length", <<current, next_lrp>>, source, dest))
                        \o Notify(observer, Event("on_route_fail", <<current, next_lrp>>, source, dest)))
                 ELSE Handled(route, success)

----------------------------------------------------------------------------
(* Values of the variables a specification does not use *)

NoVerdict == [node |-> 0, invalid |-> FALSE, valid |-> FALSE]

NoReader == [lines |-> <<>>]

NoCin == [reader |-> NoReader, lrp |-> <<>>, is_last_lrp |-> FALSE, observer |-> FALSE, called |-> FALSE]

NoCout == [cands |-> <<>>, events |-> <<>>, made |-> <<>>]

NoRet == [kind |-> "none", val |-> <<>>, err |-> ""]

NoInput == [lrps |-> <<>>, candidates |-> <<>>, observer |-> FALSE]

NoPrev == [input |-> NoInput, outcome |-> NoRet]

EmptyCache == [pair |-> <<>>, ctx |-> <<>>, depth |-> <<>>]

MatchIdle ==
    /\ cache = EmptyCache
    /\ stack = <<>>
    /\ ret = NoRet
    /\ events = <<>>
    /\ decodes = 0
    /\ input = NoInput
    /\ prev = NoPrev
    /\ entryCache = EmptyCache

NodeIdle == graph = <<>> /\ verdict = NoVerdict

CandIdle == cin = NoCin /\ cout = NoCout

NoRin == [start |-> <<>>, dest |-> <<>>, lfrc |-> 0, maxlen |-> 0, called |-> FALSE]

NoRout == [none |-> TRUE, val |-> <<>>, searches |-> <<>>]

RouteIdle == rin = NoRin /\ rout = NoRout

----------------------------------------------------------------------------
(* Specification of node classification: any map of up to MaxNodeLines     *)
(* lines over NumNodes nodes (parallel lines and self-loops included),     *)
(* built line by line; any node of it can be classified.                   *)

LineCode(l) == l.start_node * (NumNodes + 1) + l.end_node

AddLine ==
    /\ Len(graph) < MaxNodeLines
    /\ \E s \in 1..NumNodes, e \in 1..NumNodes :
          LET l == [line_id |-> Len(graph) + 1, start_node |-> s, end_node |-> e]
          IN  /\ IF graph = <<>> THEN TRUE ELSE LineCode(graph[Len(graph)]) <= LineCode(l)
              /\ graph' = Append(graph, l)
    /\ verdict' = NoVerdict
    /\ UNCHANGED <<matchVars, candVars, routeVars>>

Classify ==
    /\ \E n \in 1..NumNodes :
          verdict' = [node |-> n,
                      invalid |-> is_invalid_node([lines |-> graph], n),
                      valid |-> is_valid_node([lines |-> graph], n)]
    /\ UNCHANGED <<graph, matchVars, candVars, routeVars>>

NodeInit == MatchIdle /\ NodeIdle /\ CandIdle /\ RouteIdle

NodeNext == AddLine \/ Classify

SpecNode == NodeInit /\ [][NodeNext]_vars

----------------------------------------------------------------------------
(* Specification of candidate generation: an LRP near the junction J = 2   *)
(* shared by line A = 1 (1 -> 2) and line B = 2 (2 -> 3).  The maps differ *)
(* in whether J and the far ends of A and B are valid junctions, in the    *)
(* lengths of A and B and in where the LRP projects onto them.             *)

MaxLineLen == 4

CandLens == {0, 1, MaxLineLen}

FarAway == search_radius + 1

CandLine(id, s, e, len, d, dist) ==
    [line_id |-> id, start_node |-> s, end_node |-> e, length |-> len, frc |-> 1,
     fow |-> 0, bearing |-> 90, proj |-> <<[d |-> d, dist |-> dist]>>]

CandTopologies == {"chain", "fork", "fork_long", "chain_long"}

CandReader(topology, lenA, dA, lenB, dB, dist) ==
    LET A == CandLine(1, 1, 2, lenA, dA, dist)
        B == CandLine(2, 2, 3, lenB, dB, dist)
        fork == CandLine(3, 2, 4, 5, 0, FarAway)
        before == CandLine(4, 5, 1, 5, 5, FarAway)
        after == CandLine(5, 3, 6, 5, 0, FarAway)
    IN  [lines |->
            CASE topology = "chain" -> <<A, B>>
              [] topology = "fork" -> <<A, B, fork>>
              [] topology = "fork_long" -> <<A, B, fork, before, after>>
              [] topology = "chain_long" -> <<A, B, [before EXCEPT !.line_id = 3], [after EXCEPT !.line_id = 4]>>]

CandReaders ==
    {CandReader(t, lenA, dA, lenB, dB, dist) :
        t \in CandTopologies, lenA \in CandLens, dA \in 0..MaxLineLen,
        lenB \in CandLens, dB \in 0..MaxLineLen, dist \in {0, search_radius}}

CandLrps ==
    [pos : {1}, bear : {90, 270}, frc : {1, 5}, fow : {0, 1}, lfrcnp : {0, 1}, dnp : {0}]

CandInit ==
    /\ MatchIdle /\ NodeIdle /\ RouteIdle
    /\ \E r \in CandReaders :
          /\ \A i \in 1..2 : r.lines[i].proj[1].d <= r.lines[i].length
          /\ cin = [NoCin EXCEPT !.reader = r]
    /\ cout = NoCout

Nominate ==
    /\ ~ cin.called
    /\ \E lrp \in CandLrps, is_last_lrp \in BOOLEAN, observer \in BOOLEAN :
          LET lines == find_lines_close_to(cin.reader, coords(lrp))
              nominated == nominate_candidates(lrp, cin.reader, observer, is_last_lrp)
          IN  /\ cin' = [cin EXCEPT !.lrp = lrp, !.is_last_lrp = is_last_lrp,
                                    !.observer = observer, !.called = TRUE]
              /\ cout' = [cands |-> nominated.cands,
                          events |-> nominated.events,
                          made |-> [i \in 1..Len(lines) |->
                                      make_candidates(lrp, lines[i], cin.reader, observer, is_last_lrp)]]
    /\ UNCHANGED <<matchVars, nodeVars, routeVars>>

CandNext == Nominate

SpecCand == CandInit /\ [][CandNext]_vars

----------------------------------------------------------------------------
(* The map and the location reference points of the matcher specification. *)
(*                                                                         *)
(*   1 ==L1,L2==> 2 ==L3 (13, frc 1), L4 (12, frc 3)==> 3 ==L5==> 4        *)
(*                                                      3 <==L6== 4        *)
(*                                                                         *)
(* Position 1 lies beside the middle of L1 and L2, position 2 beside L3    *)
(* and L4, position 3 on node 3, position 4 on node 4, position 5 away     *)
(* from every line.                                                        *)

Far == [d |-> 0, dist |-> FarAway]

At(d, dist) == [d |-> d, dist |-> dist]

WorldLine(id, s, e, len, frc, bearing, proj) ==
    [line_id |-> id, start_node |-> s, end_node |-> e, length |-> len, frc |-> frc,
     fow |-> 0, bearing |-> bearing, proj |-> proj]

World ==
    [lines |-> <<
        WorldLine(1, 1, 2, 10, 1, 90, <<At(5, 2), Far, Far, Far, Far>>),
        WorldLine(2, 1, 2, 10, 1, 90, <<At(5, 1), Far, Far, Far, Far>>),
        WorldLine(3, 2, 3, 13, 1, 90, <<Far, At(6, 0), At(13, 0), Far, Far>>),
        WorldLine(4, 2, 3, 12, 3, 90, <<Far, At(9, 4), At(12, 0), Far, Far>>),
        WorldLine(5, 3, 4, 10, 1, 90, <<Far, Far, At(0, 0), At(10, 0), Far>>),
        WorldLine(6, 4, 3, 10, 1, 270, <<Far, Far, At(10, 0), At(0, 0), Far>>) >>]

Lrp(pos, lfrcnp, dnp) ==
    [pos |-> pos, bear |-> 90, frc |-> 1, fow |-> 0, lfrcnp |-> lfrcnp, dnp |-> dnp]

WorldLrps == <<Lrp(1, 1, 21), Lrp(2, 3, 5), Lrp(3, 3, 10), Lrp(4, 3, 0), Lrp(5, 3, 0)>>

\* Location references: 2..MaxLrps of the LRPs, in the order of WorldLrps
RECURSIVE Increasing(_)
Increasing(ix) ==
    Len(ix) < 2 \/ (ix[1] < ix[2] /\ Increasing(Tail(ix)))

LocRefsOfLen(n) ==
    {[i \in 1..n |-> WorldLrps[ix[i]]] :
        ix \in {jx \in [1..n -> 1..Len(WorldLrps)] : Increasing(jx)}}

LocRefs == UNION {LocRefsOfLen(n) : n \in 2..MaxLrps}

----------------------------------------------------------------------------
(* Specification of route resolution: get_candidate_route on the map World *)
(* for any two candidates (at the start, in the middle or at the end of    *)
(* their lines), a lowest frc and a maximal length.                        *)

RouteOffsets(line) == {0, line.length \div 2, line.length}

RouteCandidates ==
    UNION {{[line |-> World.lines[i].line_id, reloff |-> o, score |-> min_score] :
                o \in RouteOffsets(World.lines[i])} : i \in 1..Len(World.lines)}

RouteMaxlens == {0, 1200, 1300, 4000}

RouteInit ==
    /\ MatchIdle /\ NodeIdle /\ CandIdle
    /\ \E start \in RouteCandidates, dest \in RouteCandidates,
          lfrc \in {1, 3}, maxlen100 \in RouteMaxlens :
          rin = [start |-> start, dest |-> dest, lfrc |-> lfrc, maxlen |-> maxlen100,
                 called |-> FALSE]
    /\ rout = NoRout

Resolve ==
    /\ ~ rin.called
    /\ rin' = [rin EXCEPT !.called = TRUE]
    /\ rout' = get_candidate_route(World, rin.start, rin.dest, rin.lfrc, rin.maxlen)
    /\ UNCHANGED <<matchVars, nodeVars, candVars>>

RouteNext == Resolve

SpecRoute == RouteInit /\ [][RouteNext]_vars

----------------------------------------------------------------------------
(* The matcher.  match_tail runs as a stack of frames, one per active      *)
(* call; a frame is at "enter" (before line 174), at "loop" (top of the    *)
(* for loop, about to take pairs[i]) or at "await" (inside the recursive   *)
(* call of line 223).                                                      *)

\* A candidate as a dictionary key: Candidate compares by line and offset
Key(c) == [line |-> c.line, reloff |-> c.reloff]

Has(map, k) == k \in DOMAIN map

Put(map, k, v) == [x \in DOMAIN map \cup {k} |-> IF x = k THEN v ELSE map[x]]

product(xs, ys) ==
    [k \in 1..(Len(xs) * Len(ys)) |->
        <<xs[((k - 1) \div Len(ys)) + 1], ys[((k - 1) % Len(ys)) + 1]>>]

\* list.sort(key, reverse=True) over records [key, item]: descending, stable
RECURSIVE InsertDesc(_, _)
InsertDesc(x, sorted) ==
    IF sorted = <<>> THEN <<x>>
    ELSE IF Head(sorted).key >= x.key
         THEN <<Head(sorted)>> \o InsertDesc(x, Tail(sorted))
         ELSE <<x>> \o sorted

RECURSIVE SortDesc(_)
SortDesc(xs) ==
    IF xs = <<>> THEN <<>>
    ELSE InsertDesc(xs[Len(xs)], SortDesc(SubSeq(xs, 1, Len(xs) - 1)))

Items(xs) == [i \in 1..Len(xs) |-> xs[i].item]

sort_candidates(cands) ==
    Items(SortDesc([i \in 1..Len(cands) |-> [key |-> cands[i].score, item |-> cands[i]]]))

sort_pairs(pairs) ==
    Items(SortDesc([i \in 1..Len(pairs) |->
                        [key |-> pairs[i][1].score + pairs[i][2].score, item |-> pairs[i]]]))

sorted_pairs_unsorted(candidates, next_candidates) ==
    product(candidates, next_candidates)

sorted_pairs(candidates, next_candidates) ==
    sort_pairs(product(candidates, next_candidates))

minlen(current) == (100 - max_dnp_deviation) * current.dnp - 100 * tolerated_dnp_dev

maxlen(current) == (100 + max_dnp_deviation) * current.dnp + 100 * tolerated_dnp_dev

Frame(current, candidates, tail, depth) ==
    [current |-> current, candidates |-> candidates, tail |-> tail, depth |-> depth,
     pc |-> "enter", next_candidates |-> <<>>, pairs |-> <<>>, i |-> 0, route |-> <<>>]

\* Line 181
is_last_always(tail) == Len(tail) >= 1

is_last(tail) == Len(tail) = 1

\* Line 223: the depth of the recursive call
recursive_depth_same(depth) == depth

recursive_depth(depth) == depth + 1

\* Line 223: the candidates handed to the recursive call, and its result
recursive_candidates_all(next_candidates, c_to) == next_candidates

recursive_candidates(next_candidates, c_to) == <<c_to>>

full_route_rest_only(route, rest) == rest

full_route(route, rest) == <<route>> \o rest

Top == stack[Len(stack)]

Callers == SubSeq(stack, 1, Len(stack) - 1)

SetTop(f) == [stack EXCEPT ![Len(stack)] = f]

Returned(v) == [kind |-> "return", val |-> v, err |-> ""]

Raised(err) == [kind |-> "raise", val |-> <<>>, err |-> err]

\* The default value of the parameter `cache` is one dict, made when the
\* function is defined: a call that passes no cache gets that same dict.
default_cache(shared) == shared

\* The top-level call: match_tail(lrps[0], candidates, lrps[1:], ...) with
\* the candidates of the first LRP by descending score and no cache argument
Decode ==
    /\ stack = <<>>
    /\ decodes < MaxDecodes
    /\ \E lrps \in LocRefs, observer \in BOOLEAN :
          LET first == sort_candidates(nominate_candidates(lrps[1], World, observer, FALSE).cands)
          IN  /\ first # <<>>
              /\ input' = [lrps |-> lrps, candidates |-> first, observer |-> observer]
              /\ stack' = <<Frame(lrps[1], first, Tail(lrps), 0)>>
    /\ prev' = [input |-> input, outcome |-> ret]
    /\ cache' = default_cache(cache)
    /\ entryCache' = cache'
    /\ ret' = NoRet
    /\ events' = <<>>
    /\ decodes' = decodes + 1
    /\ UNCHANGED <<nodeVars, candVars, routeVars>>

\* Lines 174-205: the single-candidate memo lookup, then the candidates of
\* the next LRP and the sorted pairs
Enter ==
    /\ stack # <<>>
    /\ Top.pc = "enter"
    /\ LET f == Top
           observer == input.observer
       IN  IF Len(f.candidates) = 1 /\ Has(cache.depth, <<f.depth, Key(f.candidates[1])>>)
           THEN /\ ret' = IF ~ Has(cache.ctx, <<f.current, Key(f.candidates[1])>>)
                          THEN Raised("KeyError")
                          ELSE IF cache.ctx[<<f.current, Key(f.candidates[1])>>].none
                               THEN Raised("LRDecodeError")
                               ELSE Returned(cache.ctx[<<f.current, Key(f.candidates[1])>>].val)
                /\ stack' = Callers
                /\ UNCHANGED <<cache, events>>
           ELSE LET last_lrp == is_last(f.tail)
                    next_lrp == f.tail[1]
                    nominated == nominate_candidates(next_lrp, World, observer, last_lrp)
                    next_candidates == nominated.cands
                IN  IF next_candidates = <<>>
                    THEN /\ events' = events \o nominated.events
                                \o Notify(observer, Event("on_no_candidates_found", next_lrp, NoArg, NoArg))
                         /\ ret' = Raised("LRDecodeError")
                         /\ stack' = Callers
                         /\ UNCHANGED cache
                    ELSE /\ events' = events \o nominated.events
                                \o Notify(observer, Event("on_candidates_found", next_lrp, next_candidates, NoArg))
                         /\ stack' = SetTop([f EXCEPT !.pc = "loop", !.i = 1,
                                                !.next_candidates = next_candidates,
                                                !.pairs = sorted_pairs(f.candidates, next_candidates)])
                         /\ UNCHANGED <<cache, ret>>
    /\ UNCHANGED <<decodes, input, prev, entryCache, nodeVars, candVars, routeVars>>

\* Line 218: cache[(c_from, c_to)] = None
cache_pair_as_routes(c, pairKey) == [c EXCEPT !.pair = Put(c.pair, pairKey, Some(<<>>))]

cache_pair_failure(c, pairKey) == [c EXCEPT !.pair = Put(c.pair, pairKey, None)]

\* Lines 208-223: one iteration of the for loop, up to its continue, return,
\* raise or recursive call
LoopPair ==
    /\ stack # <<>>
    /\ Top.pc = "loop"
    /\ Top.i <= Len(Top.pairs)
    /\ LET f == Top
           observer == input.observer
           c_from == f.pairs[f.i][1]
           c_to == f.pairs[f.i][2]
           pairKey == <<Key(c_from), Key(c_to)>>
           last_lrp == is_last(f.tail)
           next_lrp == f.tail[1]
           lfrc == tolerated_lfrc[f.current.lfrcnp]
           handled == handleCandidatePair(World, <<f.current, next_lrp>>, <<c_from, c_to>>,
                                          observer, lfrc, minlen(f.current), maxlen(f.current))
       IN  IF Has(cache.pair, pairKey)
           THEN /\ ret' = IF cache.pair[pairKey].none
                          THEN Raised("LRDecodeError")
                          ELSE Returned(cache.pair[pairKey].val)
                /\ stack' = Callers
                /\ UNCHANGED <<cache, events>>
           ELSE /\ events' = events \o handled.events
                /\ IF handled.route.none
                   THEN /\ cache' = cache_pair_failure(cache, pairKey)
                        /\ stack' = SetTop([f EXCEPT !.i = f.i + 1])
                        /\ UNCHANGED ret
                   ELSE IF last_lrp
                   THEN /\ ret' = Returned(<<handled.route.val>>)
                        /\ stack' = Callers
                        /\ UNCHANGED cache
                   ELSE /\ stack' = SetTop([f EXCEPT !.pc = "await", !.route = handled.route.val])
                                        \o <<Frame(next_lrp, recursive_candidates(f.next_candidates, c_to),
                                                  Tail(f.tail), recursive_depth(f.depth))>>
                        /\ UNCHANGED <<cache, ret>>
    /\ UNCHANGED <<decodes, input, prev, entryCache, nodeVars, candVars, routeVars>>

\* Lines 223-229: the recursive call has returned or raised
Resume ==
    /\ stack # <<>>
    /\ Top.pc = "await"
    /\ ret.kind # "none"
    /\ LET f == Top
       IN  IF ret.kind = "return"
           THEN LET routes == full_route(f.route, ret.val)
                IN  /\ cache' = IF Len(f.candidates) = 1
                                THEN [cache EXCEPT !.ctx = Put(cache.ctx, <<f.current, Key(f.candidates[1])>>,
                                                               Some(routes))]
                                ELSE cache
                    /\ ret' = Returned(routes)
                    /\ stack' = Callers
           ELSE IF ret.err = "LRDecodeError"
           THEN /\ ret' = NoRet
                /\ stack' = SetTop([f EXCEPT !.pc = "loop", !.i = f.i + 1])
                /\ UNCHANGED cache
           ELSE /\ stack' = Callers
                /\ UNCHANGED <<cache, ret>>
    /\ UNCHANGED <<events, decodes, input, prev, entryCache, nodeVars, candVars, routeVars>>

\* Line 234: cache[(current, candidates[0])] = None
record_failure_by_depth(c, f) ==
    [c EXCEPT !.depth = Put(c.depth, <<f.depth, Key(f.candidates[1])>>, None)]

record_failure(c, f) ==
    [c EXCEPT !.ctx = Put(c.ctx, <<f.current, Key(f.candidates[1])>>, None)]

\* Lines 231-235: no pair is left
Exhausted ==
    /\ stack # <<>>
    /\ Top.pc = "loop"
    /\ Top.i > Len(Top.pairs)
    /\ LET f == Top
       IN  /\ events' = events \o Notify(input.observer,
                            Event("on_matching_fail", <<f.current, f.tail[1]>>, f.candidates, NoArg))
           /\ cache' = IF Len(f.candidates) = 1
                       THEN record_failure(cache, f)
                       ELSE cache
           /\ ret' = Raised("LRDecodeError")
           /\ stack' = Callers
    /\ UNCHANGED <<decodes, input, prev, entryCache, nodeVars, candVars, routeVars>>

Init == MatchIdle /\ NodeIdle /\ CandIdle /\ RouteIdle

Next == Decode \/ Enter \/ LoopPair \/ Resume \/ Exhausted

Spec == Init /\ [][Next]_vars

\* match_tail is sequential code: a call that has been started keeps running
\* until it returns or raises.  Nothing obliges a caller to start a decode.
Run == Enter \/ LoopPair \/ Resume \/ Exhausted

\* The guards of the steps of Run: a step of a started call can be taken
CanRun ==
    /\ stack # <<>>
    /\ \/ Top.pc = "enter"
       \/ Top.pc = "loop"
       \/ Top.pc = "await" /\ ret.kind # "none"

\* Weak fairness of Run, WF_vars(Run), with ENABLED <<Run>>_vars written as
\* the state predicate CanRun: if a call can run for ever it does run
RunFairness == []<>(~ CanRun) \/ []<><<Run>>_vars

SpecLive == Init /\ [][Next]_vars /\ RunFairness

----------------------------------------------------------------------------
(* Claims about candidate generation (SpecCand) *)

CandLineA == cin.reader.lines[1]

CandLineB == cin.reader.lines[2]

CandJunction == CandLineA.end_node

\* The LRP projects within candidate_threshold of the junction on both lines
NearJunction ==
    /\ cin.called
    /\ CandLineA.length > 0 /\ CandLineB.length > 0
    /\ CandLineA.length - CandLineA.proj[1].d <= candidate_threshold
    /\ CandLineB.proj[1].d <= candidate_threshold

\* C8: a candidate is produced by make_candidates / nominate_candidates only
\* if every admission check passes: the line has non-zero length, the offset
\* is < 1 for a non-last LRP and > 0 for the last LRP, the line's frc is at
\* most tolerated_lfrc[lrp.lfrcnp], the bearing deviates by at most
\* max_bear_deviation, and the score is set and at least min_score.
C8_AdmissionChecks ==
    \A k \in 1..Len(cout.cands) :
        LET c == cout.cands[k]
            line == cin.reader.lines[c.line]
            lrp == cin.lrp
        IN  /\ line.length # 0
            /\ ~ cin.is_last_lrp => c.reloff < line.length
            /\ cin.is_last_lrp => c.reloff > 0
            /\ line.frc <= tolerated_lfrc[lrp.lfrcnp]
            /\ Abs(angle_difference(compute_bearing(cin.reader, c, cin.is_last_lrp), lrp.bear))
                  <= max_bear_deviation
            /\ c.score # NoScore
            /\ c.score >= min_score

C8_Witness ==
    /\ cin.called
    /\ Len(cout.cands) = 1
    /\ \E i \in 1..Len(cout.made) : cout.made[i].exit = "no_forward"

\* C9 as stated: near a valid junction J shared by A (ending at J) and B
\* (starting at J), a non-last LRP gets no candidate from A and B's candidate
\* at offset 0; the last LRP gets no candidate from B and A's candidate at
\* offset 1; at an invalid J nothing is snapped to J or discarded because of J.
C9_AsStated ==
    NearJunction =>
        LET madeA == cout.made[1]
            madeB == cout.made[2]
        IN  IF is_valid_node(cin.reader, CandJunction)
            THEN IF ~ cin.is_last_lrp
                 THEN /\ madeA.cands = <<>>
                      /\ madeB.cands # <<>> => madeB.cands[1].reloff = 0
                 ELSE /\ madeB.cands = <<>>
                      /\ madeA.cands # <<>> => madeA.cands[1].reloff = CandLineA.length
            ELSE IF ~ cin.is_last_lrp
                 THEN /\ madeA.exit # "dedup"
                      /\ madeB.cands # <<>> => madeB.cands[1].reloff = CandLineB.proj[1].d
                 ELSE /\ madeB.exit # "dedup"
                      /\ madeA.cands # <<>> => madeA.cands[1].reloff = CandLineA.proj[1].d

\* C9 (amended): as C9, except that the far end of the line takes
\* precedence: for a non-last LRP, line A is discarded unless the LRP also
\* projects within candidate_threshold of A's start node and that node is a
\* valid junction, in which case A's candidate is snapped to offset 0; for
\* the last LRP, line B is discarded unless the LRP also projects within
\* candidate_threshold of B's end node and that node is a valid junction, in
\* which case B's candidate is snapped to offset 1.
C9_SnapDiscardSymmetry ==
    NearJunction =>
        LET madeA == cout.made[1]
            madeB == cout.made[2]
            A == CandLineA
            B == CandLineB
            nearStartA == A.proj[1].d <= candidate_threshold /\ is_valid_node(cin.reader, A.start_node)
            nearEndB == B.length - B.proj[1].d <= candidate_threshold /\ is_valid_node(cin.reader, B.end_node)
        IN  IF is_valid_node(cin.reader, CandJunction)
            THEN IF ~ cin.is_last_lrp
                 THEN /\ IF nearStartA
                         THEN madeA.cands # <<>> => madeA.cands[1].reloff = 0
                         ELSE madeA.exit = "dedup" /\ madeA.cands = <<>>
                      /\ madeB.exit # "dedup"
                      /\ madeB.cands # <<>> => madeB.cands[1].reloff = 0
                 ELSE /\ IF nearEndB
                         THEN madeB.cands # <<>> => madeB.cands[1].reloff = B.length
                         ELSE madeB.exit = "dedup" /\ madeB.cands = <<>>
                      /\ madeA.exit # "dedup"
                      /\ madeA.cands # <<>> => madeA.cands[1].reloff = A.length
            ELSE IF ~ cin.is_last_lrp
                 THEN /\ madeA.exit # "dedup"
                      /\ madeB.cands # <<>> => madeB.cands[1].reloff = B.proj[1].d
                 ELSE /\ madeB.exit # "dedup"
                      /\ madeA.cands # <<>> => madeA.cands[1].reloff = A.proj[1].d

C9_Witness ==
    /\ NearJunction
    /\ is_valid_node(cin.reader, CandJunction)
    /\ ~ cin.is_last_lrp
    /\ CandLineA.proj[1].d > candidate_threshold
    /\ cout.made[1].exit = "dedup"
    /\ cout.made[2].cands # <<>>
    /\ cout.made[2].cands[1].reloff = 0
    /\ CandLineB.proj[1].d = 1

\* The lines make_candidates was called for, in the order of cout.made
CandLinesNear == find_lines_close_to(cin.reader, coords(cin.lrp))

\* The line passed the degenerate-line, snapping and no-forward-line checks
Survives(made) == made.exit \notin {"degenerate", "dedup", "no_forward"}

\* C18: for a line that survives the degenerate-line, snapping and
\* no-forward-line checks, make_candidates with an observer emits exactly
\* one event: on_candidate_rejected_frc if the frc gate fails, else
\* on_candidate_rejected_bearing if the bearing gate fails, else
\* on_candidate_rejected if the score is below min_score, else
\* on_candidate_found; the candidate is yielded exactly with on_candidate_found
C18_GateEvents ==
    cin.called /\ cin.observer =>
        \A i \in 1..Len(cout.made) :
            LET made == cout.made[i]
                line == CandLinesNear[i]
                lrp == cin.lrp
            IN  IF ~ Survives(made) THEN made.events = <<>> /\ made.cands = <<>>
                ELSE /\ Len(made.events) = 1
                     /\ made.events[1].lrp = lrp
                     /\ made.events[1].from.line = line.line_id
                     /\ made.events[1].ev =
                          IF line.frc > tolerated_lfrc[lrp.lfrcnp]
                          THEN "on_candidate_rejected_frc"
                          ELSE IF Abs(angle_difference(line.bearing, lrp.bear)) > max_bear_deviation
                          THEN "on_candidate_rejected_bearing"
                          ELSE IF score_lrp_candidate(cin.reader, lrp, made.events[1].from,
                                                      cin.is_last_lrp) < min_score
                          THEN "on_candidate_rejected"
                          ELSE "on_candidate_found"
                     /\ IF made.events[1].ev = "on_candidate_found"
                        THEN made.cands = <<made.events[1].from>>
                        ELSE made.cands = <<>>

\* A line fails the frc gate and the bearing gate: the frc event is emitted
C18_Witness ==
    /\ cin.called /\ cin.observer
    /\ \E i \in 1..Len(cout.made) :
          /\ Survives(cout.made[i])
          /\ cout.made[i].events[1].ev = "on_candidate_rejected_frc"
          /\ Abs(angle_difference(CandLinesNear[i].bearing, cin.lrp.bear)) > max_bear_deviation
    /\ \E i \in 1..Len(cout.made) : ~ Survives(cout.made[i])

----------------------------------------------------------------------------
(* Claims about node classification (SpecNode) *)

NodeInc(n) == {i \in 1..Len(graph) : graph[i].end_node = n}

NodeOut(n) == {i \in 1..Len(graph) : graph[i].start_node = n}

NodeEndpoints(n) ==
    UNION {{graph[i].start_node, graph[i].end_node} : i \in NodeInc(n) \cup NodeOut(n)}

\* C10: is_invalid_node(n) is true exactly when n has (1 incoming, 1 outgoing)
\* or (2 incoming, 2 outgoing) lines whose start and end nodes are 3 distinct
\* nodes in all; dead ends, forks, T-junctions, multi-way nodes and a lone
\* self-loop are valid; is_valid_node(n) XOR is_invalid_node(n).
C10_NodeClassification ==
    verdict.node # 0 =>
        LET n == verdict.node
            nin == Cardinality(NodeInc(n))
            nout == Cardinality(NodeOut(n))
        IN  /\ verdict.invalid <=>
                  /\ (nin = 1 /\ nout = 1) \/ (nin = 2 /\ nout = 2)
                  /\ Cardinality(NodeEndpoints(n)) = 3
            /\ verdict.valid # verdict.invalid
            /\ nin = 0 \/ nout = 0 => verdict.valid
            /\ nin # nout => verdict.valid
            /\ nin + nout >= 5 => verdict.valid
            /\ NodeEndpoints(n) = {n} => verdict.valid

C10_Witness ==
    /\ verdict.node # 0
    /\ verdict.invalid
    /\ Cardinality(NodeInc(verdict.node)) = 2
    /\ Cardinality(NodeOut(verdict.node)) = 2

----------------------------------------------------------------------------
(* Claims about the matcher (Spec) *)

\* A top-level call has finished
Finished == stack = <<>> /\ ret.kind # "none"

\* The LRPs a returned list spans: those of the finished top-level call, or
\* the tail of the caller that receives the list
RetLrps == IF stack = <<>> THEN input.lrps ELSE Top.tail

Envelope(lrp, length) ==
    /\ (100 - max_dnp_deviation) * lrp.dnp - 100 * tolerated_dnp_dev <= 100 * length
    /\ 100 * length <= (100 + max_dnp_deviation) * lrp.dnp + 100 * tolerated_dnp_dev

\* The search of match_tail without any cache: some chain of candidates, one
\* of `candidates` and then one nominated per LRP of the tail, has for every
\* hop a route from get_candidate_route within the hop's DNP envelope
RECURSIVE ChainExists(_, _, _)
ChainExists(current, candidates, tail) ==
    LET next_candidates == nominate_candidates(tail[1], World, FALSE, Len(tail) = 1).cands
    IN  \E i \in 1..Len(candidates), j \in 1..Len(next_candidates) :
            LET route == get_candidate_route(World, candidates[i], next_candidates[j],
                                             tolerated_lfrc[current.lfrcnp], maxlen(current))
            IN  /\ ~ route.none
                /\ Envelope(current, route_length(World, route.val))
                /\ Len(tail) = 1 \/ ChainExists(tail[1], <<next_candidates[j]>>, Tail(tail))

\* C1: a list returned by match_tail holds one route per LRP of its tail:
\* |Routes| = |LRPs| - 1
C1_OutputLength ==
    ret.kind = "return" => Len(ret.val) = Len(RetLrps) - 1

C1_Witness ==
    /\ Finished /\ ret.kind = "return"
    /\ Len(input.lrps) = 3
    /\ Len(ret.val) = 2

\* C2: in a returned list, each route ends at the candidate (same line, same
\* relative offset) at which the next route starts
C2_Adjacency ==
    ret.kind = "return" =>
        \A i \in 1..(Len(ret.val) - 1) :
            /\ ret.val[i].end.line = ret.val[i + 1].start.line
            /\ ret.val[i].end.reloff = ret.val[i + 1].start.reloff

C2_Witness ==
    /\ Finished /\ ret.kind = "return"
    /\ Len(ret.val) = 2
    /\ ret.val[1].end.line = 4
    /\ ret.val[2].start.line = 4

\* C3: every route of a returned list has a length within the DNP envelope
\* of the LRP at which it starts
C3_DnpEnvelope ==
    ret.kind = "return" =>
        \A i \in 1..Len(ret.val) :
            Envelope(RetLrps[i], route_length(World, ret.val[i]))

C3_Witness ==
    /\ Finished /\ ret.kind = "return"
    /\ Len(ret.val) = 2
    /\ \E k \in DOMAIN cache.pair : k \notin DOMAIN entryCache.pair

\* C4: two successive top-level calls with identical inputs and no cache
\* argument have identical outcomes
C4_Determinism ==
    Finished /\ prev.input = input => ret = prev.outcome

\* C5: a top-level call that is handed no cache starts with an empty cache
C5_CacheLocal ==
    entryCache = EmptyCache

\* C6: match_tail raises LRDecodeError only when no chain of candidates
\* with admissible routes exists (in particular when an LRP of the tail has
\* no candidate); when a chain exists it returns a route list
C6_FailsOnlyWithoutChain ==
    Finished /\ ret.kind = "raise" =>
        ~ ChainExists(input.lrps[1], input.candidates, Tail(input.lrps))

NoCandidatesNext ==
    /\ stack # <<>>
    /\ Top.pc = "enter"
    /\ nominate_candidates(Top.tail[1], World, FALSE, Len(Top.tail) = 1).cands = <<>>

\* C7: when the next LRP has no candidate (nominated with is_last_lrp true
\* exactly when it is the only LRP of the tail), match_tail fails with
\* LRDecodeError without evaluating a pair or touching the cache, and the
\* observer, when given, is told on_no_candidates_found(next_lrp) last
C7_NoCandidates ==
    [][NoCandidatesNext =>
          /\ ret'.kind = "raise" /\ ret'.err = "LRDecodeError"
          /\ stack' = Callers
          /\ cache' = cache
          /\ \A k \in (Len(events) + 1)..Len(events') :
                events'[k].ev \notin {"on_route_success", "on_route_fail", "on_route_fail_length"}
          /\ IF input.observer
             THEN /\ Len(events') > Len(events)
                  /\ events'[Len(events')].ev = "on_no_candidates_found"
                  /\ events'[Len(events')].lrp = Top.tail[1]
             ELSE events' = events]_vars

C7_Witness ==
    /\ ret.kind = "raise"
    /\ stack # <<>>
    /\ events # <<>>
    /\ events[Len(events)].ev = "on_no_candidates_found"

\* C11: every intermediate line of every route of a returned list has an frc
\* of at most tolerated_lfrc[lfrcnp] of the LRP at which the route starts,
\* and a route between two candidates on one line has no intermediate line
C11_FrcFilter ==
    ret.kind = "return" =>
        \A i \in 1..Len(ret.val) :
            /\ \A k \in 1..Len(ret.val[i].path) :
                    World.lines[ret.val[i].path[k]].frc <= tolerated_lfrc[RetLrps[i].lfrcnp]
            /\ ret.val[i].start.line = ret.val[i].end.line => ret.val[i].path = <<>>

\* A returned route runs over line 3 where the shorter line 4 is filtered out
C11_Witness ==
    /\ Finished /\ ret.kind = "return"
    /\ \E i \in 1..Len(ret.val) :
          /\ ret.val[i].path = <<3>>
          /\ World.lines[4].frc > tolerated_lfrc[RetLrps[i].lfrcnp]
          /\ World.lines[4].length < World.lines[3].length

\* The frame on top is about to take pairs[i] in its for loop
AtPair == stack # <<>> /\ Top.pc = "loop" /\ Top.i <= Len(Top.pairs)

PairKeyAt(f) == <<Key(f.pairs[f.i][1]), Key(f.pairs[f.i][2])>>

HandledAt(f) ==
    handleCandidatePair(World, <<f.current, f.tail[1]>>, f.pairs[f.i], input.observer,
                        tolerated_lfrc[f.current.lfrcnp], minlen(f.current), maxlen(f.current))

\* C12: a pair that is cached as a failure, has no route or has a route
\* outside the DNP envelope is skipped: the loop goes on with the next pair
\* and the call does not end
C12_PairFailuresSkipped ==
    [][AtPair /\ (Has(cache.pair, PairKeyAt(Top)) \/ HandledAt(Top).route.none) =>
          /\ stack' = SetTop([Top EXCEPT !.i = Top.i + 1])
          /\ ret' = ret]_vars

CtxKeyAt(f) == <<f.current, Key(f.candidates[1])>>

\* A call is entered with one candidate for which an earlier call of the
\* running decode has recorded an outcome
MemoRecorded ==
    /\ stack # <<>>
    /\ Top.pc = "enter"
    /\ Len(Top.candidates) = 1
    /\ Has(cache.ctx, CtxKeyAt(Top))
    /\ ~ Has(entryCache.ctx, CtxKeyAt(Top))

\* C13: a call entered with exactly one candidate c, for which (current, c)
\* was recorded earlier in the same decode, returns the recorded route list
\* or re-raises the recorded failure, without nominating candidates for the
\* next LRP and without attempting a pair
C13_ContextMemo ==
    [][MemoRecorded =>
          /\ stack' = Callers
          /\ events' = events
          /\ cache' = cache
          /\ ret' = IF cache.ctx[CtxKeyAt(Top)].none
                    THEN Raised("LRDecodeError")
                    ELSE Returned(cache.ctx[CtxKeyAt(Top)].val)]_vars

\* The backtracking search of match_tail run without any cache: the pairs in
\* order, the first one with a route whose remaining tail can be matched
RECURSIVE BestFirst(_, _, _), TryPairs(_, _, _, _)
TryPairs(current, tail, pairs, i) ==
    IF i > Len(pairs) THEN None
    ELSE LET handled == handleCandidatePair(World, <<current, tail[1]>>, pairs[i], FALSE,
                                            tolerated_lfrc[current.lfrcnp],
                                            minlen(current), maxlen(current))
         IN  IF handled.route.none THEN TryPairs(current, tail, pairs, i + 1)
             ELSE IF Len(tail) = 1 THEN Some(<<handled.route.val>>)
             ELSE LET sub == BestFirst(tail[1], <<pairs[i][2]>>, Tail(tail))
                  IN  IF sub.none THEN TryPairs(current, tail, pairs, i + 1)
                      ELSE Some(<<handled.route.val>> \o sub.val)

BestFirst(current, candidates, tail) ==
    LET next_candidates == nominate_candidates(tail[1], World, FALSE, Len(tail) = 1).cands
    IN  IF next_candidates = <<>> THEN None
        ELSE TryPairs(current, tail, sort_pairs(product(candidates, next_candidates)), 1)

\* The pairs of a frame are candidates x next_candidates by descending sum
\* of scores, pairs of equal sum in the order of the product
PairsBestFirst(f) ==
    LET all == product(f.candidates, f.next_candidates)
        Sum(pair) == pair[1].score + pair[2].score
        Pos(pair) == CHOOSE k \in 1..Len(all) : all[k] = pair
    IN  /\ Len(f.pairs) = Len(all)
        /\ Range(f.pairs) = Range(all)
        /\ \A a \in 1..Len(f.pairs), b \in 1..Len(f.pairs) :
              a < b => \/ Sum(f.pairs[a]) > Sum(f.pairs[b])
                       \/ /\ Sum(f.pairs[a]) = Sum(f.pairs[b])
                          /\ Pos(f.pairs[a]) < Pos(f.pairs[b])

\* C14: match_tail takes the pairs candidates x next_candidates by
\* descending sum of scores (stable on ties) and its outcome is that of the
\* same backtracking search without any cache: the routes through the first
\* pair in that order that has a route and whose remaining tail matches
C14_BestFirst ==
    /\ \A k \in 1..Len(stack) : stack[k].pc # "enter" => PairsBestFirst(stack[k])
    /\ Finished =>
          LET ref == BestFirst(input.lrps[1], input.candidates, Tail(input.lrps))
          IN  IF ref.none THEN ret.kind = "raise" ELSE ret = Returned(ref.val)

\* C15: a pair key enters the cache only in the step in which
\* handleCandidatePair returned no route for that pair, and it maps to the
\* failure marker, never to a route list; a pair whose route was found and
\* whose recursive call failed is not cached
C15_PairCache ==
    [][/\ \A k \in DOMAIN cache'.pair : cache'.pair[k] = None
       /\ \A k \in DOMAIN cache'.pair \ DOMAIN cache.pair :
             AtPair /\ k = PairKeyAt(Top) /\ HandledAt(Top).route.none
       /\ (stack # <<>> /\ Top.pc = "await" /\ ret.kind = "raise") =>
             cache'.pair = cache.pair]_vars

\* A frame is back in its loop after the recursive call for a pair with a
\* route has failed; that pair is not cached while other pairs are
C15_Witness ==
    /\ stack # <<>>
    /\ Top.pc = "loop"
    /\ DOMAIN cache.pair # DOMAIN entryCache.pair
    /\ \E j \in 1..(Top.i - 1) :
          /\ Top.route # <<>>
          /\ Key(Top.route.start) = Key(Top.pairs[j][1])
          /\ Key(Top.route.end) = Key(Top.pairs[j][2])
          /\ ~ Has(cache.pair, <<Key(Top.pairs[j][1]), Key(Top.pairs[j][2])>>)

\* A call that found candidates for the next LRP fails
FailsInLoop == stack # <<>> /\ Top.pc = "loop" /\ stack' = Callers /\ ret'.kind = "raise"

\* C16: when a call that found candidates for the next LRP fails, the
\* observer (if given) has been sent on_matching_fail for (current, next_lrp)
\* in the running decode and, if the call had exactly one candidate,
\* (current, candidates[0]) is recorded as a failure in the cache
C16_MatchingFail ==
    [][FailsInLoop =>
          /\ input.observer =>
                \E k \in 1..Len(events') :
                    /\ events'[k].ev = "on_matching_fail"
                    /\ events'[k].lrp = <<Top.current, Top.tail[1]>>
          /\ Len(Top.candidates) = 1 =>
                /\ Has(cache'.ctx, CtxKeyAt(Top))
                /\ cache'.ctx[CtxKeyAt(Top)] = None]_vars

----------------------------------------------------------------------------
(* Claims about route resolution (SpecRoute) *)

\* C17: for two candidates on the line with the same line_id,
\* get_candidate_route returns Route(start, [], dest) without a path search,
\* whatever the order of the offsets; otherwise it makes one search from
\* start.line.end_node to dest.line.start_node and returns None exactly when
\* the search finds no path, else Route(start, path, dest)
C17_CandidateRoute ==
    rin.called =>
        LET start_line == World.lines[rin.start.line]
            dest_line == World.lines[rin.dest.line]
            found == shortest_path(World, start_line.end_node, dest_line.start_node,
                                   rin.lfrc, rin.maxlen)
        IN  IF start_line.line_id = dest_line.line_id
            THEN /\ rout.searches = <<>>
                 /\ ~ rout.none
                 /\ rout.val = Route(rin.start, <<>>, rin.dest)
            ELSE /\ Len(rout.searches) = 1
                 /\ rout.searches[1].source = start_line.end_node
                 /\ rout.searches[1].target = dest_line.start_node
                 /\ rout.none <=> found.none
                 /\ ~ found.none => rout.val = Route(rin.start, found.val, rin.dest)

\* Two candidates on line 5 with the start behind the destination; a search
\* from the end of line 5 to its start would have found the way over line 6
C17_Witness ==
    /\ rin.called
    /\ rin.start.line = 5 /\ rin.dest.line = 5
    /\ rin.start.reloff > rin.dest.reloff
    /\ ~ rout.none
    /\ rout.val.path = <<>>
    /\ ~ shortest_path(World, World.lines[5].end_node, World.lines[5].start_node,
                       rin.lfrc, rin.maxlen).none

\* The membership test of line 174 for a frame
DepthKeyAt(f) == <<f.depth, Key(f.candidates[1])>>

\* C19: the single-candidate memo read never fails on a missing key: where
\* the membership test on (depth, candidates[0]) succeeds, the key
\* (current, candidates[0]) that is read is in the cache; match_tail raises
\* no error other than LRDecodeError.  (No key (depth, candidate) is ever in
\* the cache, so the test never succeeds.)
C19_MemoRead ==
    /\ \A k \in 1..Len(stack) :
          (Len(stack[k].candidates) = 1 /\ Has(cache.depth, DepthKeyAt(stack[k])))
              => Has(cache.ctx, CtxKeyAt(stack[k]))
    /\ DOMAIN cache.depth = {}
    /\ ret.kind = "raise" => ret.err = "LRDecodeError"

\* A call with one candidate has gone through the test of line 174 and is in
\* its pair loop while the cache holds the outcome recorded for (current,
\* candidates[0]) earlier in the same decode
C19_Witness ==
    /\ stack # <<>>
    /\ Top.pc = "loop"
    /\ Len(Top.candidates) = 1
    /\ Has(cache.ctx, CtxKeyAt(Top))
    /\ ~ Has(entryCache.ctx, CtxKeyAt(Top))

\* C20: match_tail terminates by returning a route list or raising
\* LRDecodeError: a started call is never stuck and every decode that is
\* started finishes; the k-th active call has depth k - 1, depth + len(tail) is
\* the length of the top-level tail for every active call, and the nesting
\* never exceeds that length
C20_Termination ==
    /\ [](stack # <<>> => CanRun)
    /\ [](\A k \in 1..Len(stack) :
              /\ stack[k].depth = k - 1
              /\ stack[k].depth + Len(stack[k].tail) = Len(input.lrps) - 1
              /\ Len(stack[k].tail) >= 1)
    /\ [](stack # <<>> => Len(stack) <= Len(input.lrps) - 1)
    /\ (stack # <<>>) ~>
          (/\ Finished
           /\ ret.kind = "return" \/ (ret.kind = "raise" /\ ret.err = "LRDecodeError"))

\* The nesting reaches the length of the tail of a decode of MaxLrps LRPs
C20_Witness ==
    /\ Len(input.lrps) >= 4
    /\ Len(stack) = Len(input.lrps) - 1
    /\ Top.depth = Len(stack) - 1

====
